---- MODULE Spec2Model ----
(***************************************************************************)
(* Model of the TasQ MCP server (src/mcp-tasq/main.py): the directory      *)
(* resolver, the command executor and the seven tool handlers.             *)
(*                                                                         *)
(* Text is a sequence of tokens.  The external program's output is made of *)
(* the tokens "t" (a run of non-blank text) and "\n"; every literal of the *)
(* source is one token.  The emoji of the source's literals are written as *)
(* ASCII names in parentheses, e.g. "(check) ".                            *)
(***************************************************************************)
EXTENDS Integers, Sequences, FiniteSets, TLC

\* ---------------------------------------------------------------- bounds
\* Deepest directory of the modelled filesystem (the root has depth 0).
MaxDepth == 1
\* Most lines the external program prints on one stream.
MaxLines == 2
\* How far outside [1,5] the priorities offered to the handlers reach.
PrioritySlack == 2

\* ------------------------------------------------------- program constants
MinPriority == 1
MaxPriority == 5
DefaultPriority == 3

\* ------------------------------------------------------------------ paths
\* A path is a record: abs tells whether it starts at the root, parts are
\* its components.  Dot is the string "." of the source.
Names == {"a"}

RECURSIVE SeqsUpTo(_, _)
SeqsUpTo(S, n) ==
    IF n = 0 THEN {<<>>}
    ELSE LET shorter == SeqsUpTo(S, n - 1)
         IN  shorter \cup {Append(s, x) : s \in {q \in shorter : Len(q) = n - 1}, x \in S}

AbsDirs == {[abs |-> TRUE, parts |-> s] : s \in SeqsUpTo(Names, MaxDepth)}
RelDirs == {[abs |-> FALSE, parts |-> s] : s \in SeqsUpTo(Names, 1) \ {<<>>}}
Dot == [abs |-> FALSE, parts |-> <<>>]
ProjectDirs == {Dot} \cup AbsDirs \cup RelDirs
NoPath == [abs |-> FALSE, parts |-> <<"None">>]

MarkerKinds == {"none", "file", "dir"}

\* ------------------------------------------------------------------- text
Space == {" ", "\t", "\n", "\r"}

RECURSIVE Repeat(_, _)
Repeat(x, n) == IF n = 0 THEN <<>> ELSE <<x>> \o Repeat(x, n - 1)

RECURSIVE Lines(_)
Lines(k) == IF k = 0 THEN <<>> ELSE IF k = 1 THEN <<"t">> ELSE Lines(k - 1) \o <<"\n", "t">>

\* What the external program may write on a stream: up to MaxLines lines,
\* with or without blank space before and after.
Streams == {Repeat("\n", l) \o Lines(k) \o Repeat("\n", r) : k \in 0..MaxLines, l \in 0..1, r \in 0..1}

Descriptions == {<<"buy milk">>, <<"write spec">>}
Identifiers == {<<"7">>, <<"milk">>}
Priorities == (MinPriority - PrioritySlack)..(MaxPriority + PrioritySlack)

VARIABLES fs, cwd, pc, req, actual_project_dir, output, all_tasks, pending_tasks,
          completed_tasks, probes, calls, proc, result

vars == <<fs, cwd, pc, req, actual_project_dir, output, all_tasks, pending_tasks,
          completed_tasks, probes, calls, proc, result>>

\* ------------------------------------------------------------ conversions
\* str.strip(): leading and trailing white space removed.
RECURSIVE LStrip(_)
LStrip(s) == IF s = <<>> THEN s ELSE IF Head(s) \in Space THEN LStrip(Tail(s)) ELSE s

RECURSIVE RStrip(_)
RStrip(s) ==
    IF s = <<>> THEN s
    ELSE IF s[Len(s)] \in Space THEN RStrip(SubSeq(s, 1, Len(s) - 1)) ELSE s

strip(s) == RStrip(LStrip(s))

\* len(s.split('\n')): one more than the number of line breaks.
RECURSIVE CountBreaks(_)
CountBreaks(s) ==
    IF s = <<>> THEN 0 ELSE (IF Head(s) = "\n" THEN 1 ELSE 0) + CountBreaks(Tail(s))

CountLines(s) == CountBreaks(s) + 1

\* Python truthiness of an Optional[str]: None and "" are false.
None == <<"<None>">>
Truthy(s) == s # None /\ s # <<>>

\* str(int): the decimal numeral.
Digit(d) == CASE d = 0 -> "0" [] d = 1 -> "1" [] d = 2 -> "2" [] d = 3 -> "3" [] d = 4 -> "4"
              [] d = 5 -> "5" [] d = 6 -> "6" [] d = 7 -> "7" [] d = 8 -> "8" [] d = 9 -> "9"

RECURSIVE StrNat(_)
StrNat(n) == IF n < 10 THEN <<Digit(n)>> ELSE StrNat(n \div 10) \o <<Digit(n % 10)>>

Str(n) == IF n < 0 THEN <<"-">> \o StrNat(0 - n) ELSE StrNat(n)

\* str(Path) / the text of a path parameter.
RECURSIVE JoinParts(_)
JoinParts(parts) ==
    IF parts = <<>> THEN <<>>
    ELSE IF Len(parts) = 1 THEN <<parts[1]>>
    ELSE <<parts[1], "/">> \o JoinParts(Tail(parts))

PathText(p) ==
    IF p.abs THEN <<"/">> \o JoinParts(p.parts)
    ELSE IF p.parts = <<>> THEN <<".">> ELSE JoinParts(p.parts)

\* Path(p).resolve() and os.path.abspath(p): a relative path is taken from
\* the working directory (the modelled paths hold no "..", no links).
resolve(p) == IF p.abs THEN p ELSE [abs |-> TRUE, parts |-> cwd.parts \o p.parts]
abspath(p) == IF p.abs THEN p ELSE [abs |-> TRUE, parts |-> cwd.parts \o p.parts]
basename(p) == IF p.parts = <<>> THEN <<>> ELSE <<p.parts[Len(p.parts)]>>

\* ----------------------------------------------------- directory resolver
\* The kind of the entry dir/".tasq" ("none" when there is no such entry).
Marker(dir) == IF resolve(dir) \in DOMAIN fs THEN fs[resolve(dir)] ELSE "none"
exists(dir) == Marker(dir) # "none"
is_dir(dir) == Marker(dir) = "dir"

\* The ancestors without the filesystem root.
parentsBelowRoot(p) ==
    [i \in 1..(Len(p.parts) - 1) |->
        [abs |-> TRUE, parts |-> SubSeq(p.parts, 1, Len(p.parts) - i)]]

\* [current_path] + list(current_path.parents): the path, then every
\* ancestor up to the root.
parents(p) ==
    [i \in 1..Len(p.parts) |-> [abs |-> TRUE, parts |-> SubSeq(p.parts, 1, Len(p.parts) - i)]]
Chain(p) == <<p>> \o parents(p)

\* The loop of find_tasq_directory from position i of the chain; seen is
\* the sequence of directories probed so far.
RECURSIVE Walk(_, _, _)
Walk(chain, i, seen) ==
    IF i > Len(chain) THEN [found |-> FALSE, dir |-> NoPath, probed |-> seen]
    ELSE IF exists(chain[i]) /\ is_dir(chain[i])
         THEN [found |-> TRUE, dir |-> chain[i], probed |-> Append(seen, chain[i])]
         ELSE Walk(chain, i + 1, Append(seen, chain[i]))

find_tasq_directory(start_path) == Walk(Chain(resolve(start_path)), 1, <<>>)

AutoNotFoundMsg ==
    <<"No .tasq directory found. Please run 'tasq init' to initialize a project, or specify an explicit project_dir.">>
ExplicitNotFoundMsg(project_dir) ==
    <<"No .tasq directory found in ">> \o PathText(project_dir)
        \o <<". Please run 'tasq init' in that directory first.">>

\* The explicit branch without its check.
ExplicitAcceptedUnchecked(project_dir) == TRUE

\* get_project_directory: ok with the directory, or the raised Exception.
ExplicitAccepted(project_dir) == exists(project_dir)

get_project_directory(project_dir) ==
    IF project_dir = Dot
    THEN LET detected == find_tasq_directory(Dot)
         IN  IF ~detected.found
             THEN [ok |-> FALSE, dir |-> NoPath, type |-> "Exception", msg |-> AutoNotFoundMsg,
                   probed |-> detected.probed]
             ELSE [ok |-> TRUE, dir |-> detected.dir, type |-> "", msg |-> <<>>,
                   probed |-> detected.probed]
    ELSE IF ~ExplicitAccepted(project_dir)
         THEN [ok |-> FALSE, dir |-> NoPath, type |-> "Exception",
               msg |-> ExplicitNotFoundMsg(project_dir), probed |-> <<project_dir>>]
         ELSE [ok |-> TRUE, dir |-> project_dir, type |-> "", msg |-> <<>>,
               probed |-> <<project_dir>>]

\* ------------------------------------------------------- command executor
\* What subprocess.run can do: the program exits (status 0 or not), or it
\* cannot be started: no such file, or another OSError such as a file on
\* the PATH that may not be executed.
RunOutcomes ==
    {[kind |-> "exited", returncode |-> 0, stdout |-> o, stderr |-> <<>>] : o \in Streams}
    \cup {[kind |-> "exited", returncode |-> 1, stdout |-> <<>>, stderr |-> e] : e \in Streams}
    \cup {[kind |-> k, returncode |-> 0, stdout |-> <<>>, stderr |-> <<>>] :
            k \in {"FileNotFoundError", "PermissionError"}}

CalledProcessErrorStr == <<"Command '['tasq', ...]' returned non-zero exit status 1.">>
BinaryNotFoundMsg == <<"TasQ binary not found. Please ensure 'tasq' is installed and in your PATH.">>
PermissionErrorStr == <<"[Errno 13] Permission denied: 'tasq'">>

Cmd(args) == <<<<"tasq">>>> \o args

NoProc == [kind |-> "none", returncode |-> 0, stdout |-> <<>>, stderr |-> <<>>]

\* run_tasq_command on the outcome o of its one subprocess.run.
run_tasq_command(o) ==
    IF o.kind = "exited" /\ o.returncode = 0
    THEN [ok |-> TRUE, value |-> strip(o.stdout), type |-> "", msg |-> <<>>]
    ELSE IF o.kind = "exited"
    THEN [ok |-> FALSE, value |-> <<>>, type |-> "Exception",
          msg |-> <<"TasQ command failed: ">>
                    \o (IF o.stderr # <<>> THEN strip(o.stderr) ELSE CalledProcessErrorStr)]
    ELSE IF o.kind = "FileNotFoundError"
    THEN [ok |-> FALSE, value |-> <<>>, type |-> "Exception", msg |-> BinaryNotFoundMsg]
    ELSE [ok |-> FALSE, value |-> <<>>, type |-> o.kind, msg |-> PermissionErrorStr]


\* ---------------------------------------------------------- the handlers
NoResult == [kind |-> "none", type |-> "", text |-> <<>>]
Raise(type, msg) == [kind |-> "raise", type |-> type, text |-> msg]
Return(text) == [kind |-> "return", type |-> "", text |-> text]

\* The exception types of the model; all of them derive from Exception.
ExceptionTypes == {"Exception", "ValueError", "PermissionError"}
CaughtByExceptException(type) == type \in ExceptionTypes

NoRequest ==
    [op |-> "none", description |-> <<>>, task_identifier |-> <<>>, priority |-> DefaultPriority,
     show_completed |-> FALSE, project_dir |-> Dot]

Request(op, d, t, p, c, dir) ==
    [op |-> op, description |-> d, task_identifier |-> t, priority |-> p,
     show_completed |-> c, project_dir |-> dir]

Requests ==
    {Request("add_task", d, <<>>, p, FALSE, dir) :
        d \in Descriptions, p \in Priorities, dir \in ProjectDirs}
    \cup {Request("list_tasks", <<>>, <<>>, DefaultPriority, c, dir) :
        c \in BOOLEAN, dir \in ProjectDirs}
    \cup {Request("get_next_task", <<>>, <<>>, DefaultPriority, FALSE, dir) : dir \in ProjectDirs}
    \cup {Request("complete_task", <<>>, t, DefaultPriority, FALSE, dir) :
        t \in Identifiers, dir \in ProjectDirs}
    \cup {Request("set_task_priority", <<>>, t, p, FALSE, dir) :
        t \in Identifiers, p \in Priorities, dir \in ProjectDirs}
    \cup {Request("get_project_status", <<>>, <<>>, DefaultPriority, FALSE, dir) :
        dir \in ProjectDirs}
    \cup {Request("open_task_ui", <<>>, <<>>, DefaultPriority, FALSE, dir) : dir \in ProjectDirs}

locals == <<actual_project_dir, output, all_tasks, pending_tasks, completed_tasks>>

\* The handler ends: its result goes to the caller, its locals are gone.
Finish(res) ==
    /\ pc' = "done"
    /\ result' = res
    /\ actual_project_dir' = NoPath
    /\ output' = <<>>
    /\ all_tasks' = <<>>
    /\ pending_tasks' = <<>>
    /\ completed_tasks' = <<>>

\* actual_project_dir = get_project_directory(project_dir), not in a try.
ResolveOrRaise(next_pc) ==
    LET r == get_project_directory(req.project_dir)
    IN  /\ probes' = probes \o r.probed
        /\ calls' = calls
        /\ IF r.ok
           THEN /\ actual_project_dir' = r.dir
                /\ pc' = next_pc
                /\ UNCHANGED <<result, output, all_tasks, pending_tasks, completed_tasks>>
           ELSE Finish(Raise(r.type, r.msg))

Invocation(args) == [cmd |-> Cmd(args), cwd |-> actual_project_dir]

\* The range check with its lower end off by one.
ValidPriorityFromZero(priority) == MinPriority - 1 <= priority /\ priority <= MaxPriority

ValidPriority(priority) == MinPriority <= priority /\ priority <= MaxPriority
PriorityMsg == <<"Priority must be between 1 and 5">>

Init ==
    /\ fs \in [AbsDirs -> MarkerKinds]
    /\ cwd \in AbsDirs
    /\ pc = "idle"
    /\ req = NoRequest
    /\ actual_project_dir = NoPath
    /\ output = <<>>
    /\ all_tasks = <<>>
    /\ pending_tasks = <<>>
    /\ completed_tasks = <<>>
    /\ probes = <<>>
    /\ calls = <<>>
    /\ proc = NoProc
    /\ result = NoResult

\* The framework dispatches one tool call to its handler.
Call ==
    /\ pc = "idle"
    /\ \E r \in Requests : req' = r /\ pc' = r.op
    /\ UNCHANGED <<fs, cwd, locals, probes, calls, proc, result>>

\* The call is over; nothing of it is kept for the next one.
NextCall ==
    /\ pc = "done"
    /\ pc' = "idle"
    /\ req' = NoRequest
    /\ probes' = <<>>
    /\ calls' = <<>>
    /\ proc' = NoProc
    /\ result' = NoResult
    /\ UNCHANGED <<fs, cwd, locals>>

\* ---- add_task
AddArgs == <<<<"add">>, req.description, <<"--priority">>, Str(req.priority)>>
AddConfirmation ==
    <<"(check) Task added: ">> \o req.description \o <<" (priority: ">> \o Str(req.priority)
        \o <<")">>

AddTaskValidate ==
    /\ pc = "add_task"
    /\ IF ~ValidPriority(req.priority)
       THEN Finish(Raise("ValueError", PriorityMsg))
       ELSE pc' = "add_resolve" /\ UNCHANGED <<result, locals>>
    /\ UNCHANGED <<fs, cwd, req, probes, calls, proc>>

AddTaskResolve ==
    /\ pc = "add_resolve"
    /\ ResolveOrRaise("add_run")
    /\ UNCHANGED <<fs, cwd, req, proc>>

AddTaskRun ==
    /\ pc = "add_run"
    /\ \E o \in RunOutcomes :
         LET r == run_tasq_command(o)
         IN  /\ proc' = o
             /\ calls' = Append(calls, Invocation(AddArgs))
             /\ Finish(IF r.ok THEN Return(AddConfirmation) ELSE Raise(r.type, r.msg))
    /\ UNCHANGED <<fs, cwd, req, probes>>

\* ---- list_tasks
\* The filter flag chosen without looking at show_completed.
ListArgsAlwaysPending == <<<<"list">>, <<"--pending">>>>

ListArgs == <<<<"list">>, IF req.show_completed THEN <<"--completed">> ELSE <<"--pending">>>>
NoTasksMsg == <<"(memo) No tasks found.">>
TasksHeading == <<"(clipboard) **Tasks:**\n">>
ListText(out) == IF out = <<>> THEN NoTasksMsg ELSE TasksHeading \o out

ListTasksResolve ==
    /\ pc = "list_tasks"
    /\ ResolveOrRaise("list_run")
    /\ UNCHANGED <<fs, cwd, req, proc>>

ListTasksRun ==
    /\ pc = "list_run"
    /\ \E o \in RunOutcomes :
         LET r == run_tasq_command(o)
         IN  /\ proc' = o
             /\ calls' = Append(calls, Invocation(ListArgs))
             /\ Finish(IF r.ok THEN Return(ListText(r.value)) ELSE Raise(r.type, r.msg))
    /\ UNCHANGED <<fs, cwd, req, probes>>

\* ---- get_next_task
NextArgs == <<<<"next">>>>
CaughtUpMsg == <<"(party) No pending tasks! All caught up.">>
NextHeading == <<"(next) **Next task:**\n">>
NextText(out) == IF out = <<>> THEN CaughtUpMsg ELSE NextHeading \o out

GetNextTaskResolve ==
    /\ pc = "get_next_task"
    /\ ResolveOrRaise("next_run")
    /\ UNCHANGED <<fs, cwd, req, proc>>

GetNextTaskRun ==
    /\ pc = "next_run"
    /\ \E o \in RunOutcomes :
         LET r == run_tasq_command(o)
         IN  /\ proc' = o
             /\ calls' = Append(calls, Invocation(NextArgs))
             /\ Finish(IF r.ok THEN Return(NextText(r.value)) ELSE Raise(r.type, r.msg))
    /\ UNCHANGED <<fs, cwd, req, probes>>


\* ---- complete_task
CompleteArgs == <<<<"complete">>, req.task_identifier>>
CompleteNextHeading == <<"\n\n(next) **Next task:**\n">>
AllCompletedSegment == <<"\n\n(party) All tasks completed! Great work!">>
WarningHeading == <<"\n\n(warning) Could not fetch next task: ">>

\* The chained call without its try: a failure leaves the handler.
CompleteResultNoTry(out, r) ==
    IF r.ok
    THEN IF r.value # <<>>
         THEN Return(<<"(check) ">> \o out \o CompleteNextHeading \o r.value)
         ELSE Return(<<"(check) ">> \o out \o AllCompletedSegment)
    ELSE Raise(r.type, r.msg)

\* Lines 176-188: the confirmation, then what the chained "next" call r
\* adds to it.
CompleteResult(out, r) ==
    LET confirmation == <<"(check) ">> \o out
    IN  IF r.ok
        THEN IF r.value # <<>>
             THEN Return(confirmation \o CompleteNextHeading \o r.value)
             ELSE Return(confirmation \o AllCompletedSegment)
        ELSE IF CaughtByExceptException(r.type)
             THEN Return(confirmation \o WarningHeading \o r.msg)
             ELSE Raise(r.type, r.msg)

CompleteTaskResolve ==
    /\ pc = "complete_task"
    /\ ResolveOrRaise("complete_run")
    /\ UNCHANGED <<fs, cwd, req, proc>>

\* The primary call inside the try: its failure goes on to the chained call.
CompleteTaskRunSwallowed ==
    /\ pc = "complete_run"
    /\ \E o \in RunOutcomes :
         LET r == run_tasq_command(o)
         IN  /\ proc' = o
             /\ calls' = Append(calls, Invocation(CompleteArgs))
             /\ output' = (IF r.ok THEN r.value ELSE r.msg)
             /\ pc' = "complete_next"
             /\ UNCHANGED <<result, actual_project_dir, all_tasks, pending_tasks,
                            completed_tasks>>
    /\ UNCHANGED <<fs, cwd, req, probes>>

CompleteTaskRun ==
    /\ pc = "complete_run"
    /\ \E o \in RunOutcomes :
         LET r == run_tasq_command(o)
         IN  /\ proc' = o
             /\ calls' = Append(calls, Invocation(CompleteArgs))
             /\ IF r.ok
                THEN /\ output' = r.value
                     /\ pc' = "complete_next"
                     /\ UNCHANGED <<result, actual_project_dir, all_tasks, pending_tasks,
                                    completed_tasks>>
                ELSE Finish(Raise(r.type, r.msg))
    /\ UNCHANGED <<fs, cwd, req, probes>>

CompleteTaskNext ==
    /\ pc = "complete_next"
    /\ \E o \in RunOutcomes :
         /\ proc' = o
         /\ calls' = Append(calls, Invocation(NextArgs))
         /\ Finish(CompleteResult(output, run_tasq_command(o)))
    /\ UNCHANGED <<fs, cwd, req, probes>>

\* ---- set_task_priority
SetPriorityArgs == <<<<"set-priority">>, req.task_identifier, Str(req.priority)>>

SetTaskPriorityValidate ==
    /\ pc = "set_task_priority"
    /\ IF ~ValidPriority(req.priority)
       THEN Finish(Raise("ValueError", PriorityMsg))
       ELSE pc' = "set_resolve" /\ UNCHANGED <<result, locals>>
    /\ UNCHANGED <<fs, cwd, req, probes, calls, proc>>

SetTaskPriorityResolve ==
    /\ pc = "set_resolve"
    /\ ResolveOrRaise("set_run")
    /\ UNCHANGED <<fs, cwd, req, proc>>

SetTaskPriorityRun ==
    /\ pc = "set_run"
    /\ \E o \in RunOutcomes :
         LET r == run_tasq_command(o)
         IN  /\ proc' = o
             /\ calls' = Append(calls, Invocation(SetPriorityArgs))
             /\ Finish(IF r.ok THEN Return(<<"(cycle) ">> \o r.value) ELSE Raise(r.type, r.msg))
    /\ UNCHANGED <<fs, cwd, req, probes>>

\* ---- get_project_status
StatusErrorHeading == <<"(cross) Error getting project status: ">>
\* The outer except re-raising instead of returning the text.
StatusErrorReraised(msg) == Raise("Exception", msg)

StatusError(msg) == Return(StatusErrorHeading \o msg)
StatusNextHeading == <<"(next) **Next task:**\n">>
PendingHeading == <<"(clipboard) **Pending tasks:**\n">>
AllCompleteMsg == <<"(party) All tasks completed!">>

Count(text) == IF text # <<>> THEN CountLines(text) ELSE 0

\* The inner except keeping the failure's message as the next task.
BestEffortNextReported(r) == IF r.ok THEN r.value ELSE r.msg

\* Lines 233-237: a failure of the "next" call of any kind leaves None.
BestEffortNext(r) == IF r.ok THEN r.value ELSE None

\* Lines 229-257.
StatusText(dir, all, pending, completed, next_task) ==
    LET abs_project_dir == abspath(dir)
    IN  <<"(chart) **Project: ">> \o basename(abs_project_dir) \o <<"**\n">>
        \o <<"(folder) Path: ">> \o PathText(abs_project_dir) \o <<"\n">>
        \o <<"(memo) Total tasks: ">> \o Str(Count(all)) \o <<"\n">>
        \o <<"(hourglass) Pending: ">> \o Str(Count(pending)) \o <<"\n">>
        \o <<"(check) Completed: ">> \o Str(Count(completed)) \o <<"\n\n">>
        \o (IF Truthy(next_task) THEN StatusNextHeading \o next_task \o <<"\n\n">> ELSE <<>>)
        \o (IF pending # <<>> THEN PendingHeading \o pending ELSE AllCompleteMsg)

StatusResolve ==
    /\ pc = "get_project_status"
    /\ LET r == get_project_directory(req.project_dir)
       IN  /\ probes' = probes \o r.probed
           /\ IF r.ok
              THEN /\ actual_project_dir' = r.dir
                   /\ pc' = "status_list"
                   /\ UNCHANGED <<result, output, all_tasks, pending_tasks, completed_tasks>>
              ELSE Finish(StatusError(r.msg))
    /\ UNCHANGED <<fs, cwd, req, calls, proc>>

StatusList ==
    /\ pc = "status_list"
    /\ \E o \in RunOutcomes :
         LET r == run_tasq_command(o)
         IN  /\ proc' = o
             /\ calls' = Append(calls, Invocation(<<<<"list">>>>))
             /\ IF r.ok
                THEN /\ all_tasks' = r.value
                     /\ pc' = "status_pending"
                     /\ UNCHANGED <<result, actual_project_dir, output, pending_tasks,
                                    completed_tasks>>
                ELSE Finish(StatusError(r.msg))
    /\ UNCHANGED <<fs, cwd, req, probes>>

StatusPending ==
    /\ pc = "status_pending"
    /\ \E o \in RunOutcomes :
         LET r == run_tasq_command(o)
         IN  /\ proc' = o
             /\ calls' = Append(calls, Invocation(<<<<"list">>, <<"--pending">>>>))
             /\ IF r.ok
                THEN /\ pending_tasks' = r.value
                     /\ pc' = "status_completed"
                     /\ UNCHANGED <<result, actual_project_dir, output, all_tasks,
                                    completed_tasks>>
                ELSE Finish(StatusError(r.msg))
    /\ UNCHANGED <<fs, cwd, req, probes>>

StatusCompleted ==
    /\ pc = "status_completed"
    /\ \E o \in RunOutcomes :
         LET r == run_tasq_command(o)
         IN  /\ proc' = o
             /\ calls' = Append(calls, Invocation(<<<<"list">>, <<"--completed">>>>))
             /\ IF r.ok
                THEN /\ completed_tasks' = r.value
                     /\ pc' = "status_next"
                     /\ UNCHANGED <<result, actual_project_dir, output, all_tasks,
                                    pending_tasks>>
                ELSE Finish(StatusError(r.msg))
    /\ UNCHANGED <<fs, cwd, req, probes>>

StatusNext ==
    /\ pc = "status_next"
    /\ \E o \in RunOutcomes :
         /\ proc' = o
         /\ calls' = Append(calls, Invocation(NextArgs))
         /\ Finish(Return(StatusText(actual_project_dir, all_tasks, pending_tasks,
                                     completed_tasks, BestEffortNext(run_tasq_command(o)))))
    /\ UNCHANGED <<fs, cwd, req, probes>>

\* ---- open_task_ui
UiText(abs_project_dir) ==
    <<"\n(screen) **Open TasQ Interactive UI:**\n\n... 2. Navigate to: ">>
        \o PathText(abs_project_dir) \o <<"\n3. Run: tasq\n\n**TUI Controls:** ...\n">>

OpenTaskUi ==
    /\ pc = "open_task_ui"
    /\ LET r == get_project_directory(req.project_dir)
       IN  /\ probes' = probes \o r.probed
           /\ Finish(IF r.ok THEN Return(UiText(abspath(r.dir))) ELSE Raise(r.type, r.msg))
    /\ UNCHANGED <<fs, cwd, req, calls, proc>>

Next ==
    \/ Call
    \/ NextCall
    \/ AddTaskValidate
    \/ AddTaskResolve
    \/ AddTaskRun
    \/ ListTasksResolve
    \/ ListTasksRun
    \/ GetNextTaskResolve
    \/ GetNextTaskRun
    \/ CompleteTaskResolve
    \/ CompleteTaskRun
    \/ CompleteTaskNext
    \/ SetTaskPriorityValidate
    \/ SetTaskPriorityResolve
    \/ SetTaskPriorityRun
    \/ StatusResolve
    \/ StatusList
    \/ StatusPending
    \/ StatusCompleted
    \/ StatusNext
    \/ OpenTaskUi

Spec == Init /\ [][Next]_vars


\* ============================================================== properties
\* What the properties say about the filesystem and the subprocess, stated
\* on the state itself rather than through the resolver and the executor.
IsPrefix(p, s) == Len(p) <= Len(s) /\ SubSeq(s, 1, Len(p)) = p
Blank(s) == \A i \in 1..Len(s) : s[i] \in Space
Failed(o) == o.kind # "exited" \/ o.returncode # 0

\* The directories on the chain from d up to the root, d included.
Ancestors(d) == {a \in AbsDirs : IsPrefix(a.parts, d.parts)}
Located(dir) == IF dir.abs THEN dir ELSE [abs |-> TRUE, parts |-> cwd.parts \o dir.parts]
EntryKind(dir) == IF Located(dir) \in AbsDirs THEN fs[Located(dir)] ELSE "none"

\* No .tasq entry where the resolver is to look.
NothingToFind(project_dir) ==
    IF project_dir = Dot THEN \A a \in Ancestors(cwd) : fs[a] = "none"
    ELSE EntryKind(project_dir) = "none"
NotFoundMsg(project_dir) ==
    IF project_dir = Dot THEN AutoNotFoundMsg ELSE ExplicitNotFoundMsg(project_dir)

\* The message of the failure the outcome o of a subprocess stands for.
FailureMsg(o) ==
    IF o.kind = "exited"
    THEN <<"TasQ command failed: ">>
            \o (IF o.stderr = <<>> THEN CalledProcessErrorStr ELSE strip(o.stderr))
    ELSE IF o.kind = "FileNotFoundError" THEN BinaryNotFoundMsg ELSE PermissionErrorStr

InRange(priority) == 1 <= priority /\ priority <= 5

\* C1: a priority outside [1,5] makes add_task and set_task_priority fail
\* with ValueError (the InvalidArgument condition) whatever the other
\* arguments are, and up to and at that failure no directory has been probed
\* and no subprocess has been started.
C1_InvalidPriorityFailsFast ==
    (req.op \in {"add_task", "set_task_priority"} /\ ~InRange(req.priority))
        => /\ probes = <<>>
           /\ calls = <<>>
           /\ pc \in {req.op, "done"}
           /\ pc = "done" => result = Raise("ValueError", PriorityMsg)

C1_Witness ==
    /\ pc = "done"
    /\ req.op = "set_task_priority"
    /\ req.priority = 6
    /\ req.project_dir # Dot
    /\ EntryKind(req.project_dir) = "none"
    /\ result.type = "ValueError"

\* C2: once complete_task has resolved the directory and its "complete"
\* call has succeeded, the step that runs the chained "next" call always
\* returns a string: the confirmation "(check) " + output, then the warning
\* segment with the failure's message if the call failed, the celebration
\* segment if its output is blank, the next-task heading and the trimmed
\* output otherwise.
C2_ChainedNextNeverFails ==
    [][pc = "complete_next"
        => /\ pc' = "done"
           /\ result'.kind = "return"
           /\ result'.text =
                <<"(check) ">> \o output
                  \o (IF Failed(proc') THEN WarningHeading \o FailureMsg(proc')
                      ELSE IF Blank(proc'.stdout) THEN AllCompletedSegment
                      ELSE CompleteNextHeading \o strip(proc'.stdout))]_vars

C2_Witness ==
    /\ pc = "done"
    /\ req.op = "complete_task"
    /\ Len(calls) = 2
    /\ proc.kind = "PermissionError"
    /\ result.kind = "return"
    /\ IsPrefix(<<"(check) ", "t">> \o WarningHeading, result.text)

StatusLabels ==
    <<"get_project_status", "status_list", "status_pending", "status_completed",
      "status_next", "done">>
Rank(label) == CHOOSE i \in 1..Len(StatusLabels) : StatusLabels[i] = label

\* C3: every step of get_project_status moves the handler forward and the
\* handler only ever ends by returning a string; when there is nothing for
\* the resolver to find, or one of the three list calls fails, that string
\* is the error heading followed by the failure's message.
C3_StatusNeverRaises ==
    [][(req.op = "get_project_status" /\ pc # "done")
        => /\ Rank(pc') > Rank(pc)
           /\ pc' = "done" => result'.kind = "return"
           /\ (pc = "get_project_status" /\ NothingToFind(req.project_dir))
                => /\ pc' = "done"
                   /\ result'.text = StatusErrorHeading \o NotFoundMsg(req.project_dir)
           /\ (pc \in {"status_list", "status_pending", "status_completed"} /\ Failed(proc'))
                => /\ pc' = "done"
                   /\ result'.text = StatusErrorHeading \o FailureMsg(proc')]_vars

C3_Witness ==
    /\ pc = "done"
    /\ req.op = "get_project_status"
    /\ Len(calls) = 2
    /\ proc.kind = "exited"
    /\ proc.returncode = 1
    /\ result = Return(StatusErrorHeading \o <<"TasQ command failed: ", "t">>)

ResolvingHandlers ==
    {"add_task", "list_tasks", "get_next_task", "complete_task", "set_task_priority",
     "open_task_ui"}

\* C4: when there is no .tasq for the resolver to find, the six handlers
\* that propagate failures (add_task and set_task_priority with a priority
\* in range) start no subprocess and end raising the ProjectNotFound
\* exception; open_task_ui starts no subprocess at all.
C4_NoProjectNoSubprocess ==
    /\ req.op = "open_task_ui" => calls = <<>>
    /\ (/\ req.op \in ResolvingHandlers
        /\ req.op \in {"add_task", "set_task_priority"} => InRange(req.priority)
        /\ NothingToFind(req.project_dir))
         => /\ calls = <<>>
            /\ pc = "done" => result = Raise("Exception", NotFoundMsg(req.project_dir))

C4_Witness ==
    /\ pc = "done"
    /\ req.op = "complete_task"
    /\ req.project_dir = Dot
    /\ cwd.parts # <<>>
    /\ NothingToFind(Dot)
    /\ result = Raise("Exception", AutoNotFoundMsg)
    /\ calls = <<>>

\* C5: open_task_ui on an explicit project_dir succeeds exactly when the
\* entry .tasq directly under that path is a directory; it probes that path
\* only, reports the path as given, and otherwise raises ProjectNotFound
\* naming the path.
C5_ExplicitNeedsDirectory ==
    (pc = "done" /\ req.op = "open_task_ui" /\ req.project_dir # Dot)
        => /\ result.kind = "return" <=> EntryKind(req.project_dir) = "dir"
           /\ probes = <<req.project_dir>>
           /\ result.kind = "return" => result.text = UiText(Located(req.project_dir))
           /\ result.kind = "raise"
                => result = Raise("Exception", ExplicitNotFoundMsg(req.project_dir))

\* The nearest directory on the chain from the working directory that
\* holds a .tasq directory.
Nearest(a) ==
    /\ a \in Ancestors(cwd)
    /\ fs[a] = "dir"
    /\ \A b \in Ancestors(cwd) : Len(b.parts) > Len(a.parts) => fs[b] # "dir"

\* C6: auto-detection probes the chain from the working directory upward,
\* at most once per directory, and stops at the nearest directory holding a
\* .tasq directory, which it returns (the working directory itself when it
\* holds one; searching again from the returned directory returns it
\* again); it reports "not found" exactly when no directory of the chain
\* holds one, having probed the chain up to the root.
C6_UpwardSearchFindsNearest ==
    (req.project_dir = Dot /\ probes # <<>>)
        => /\ Len(probes) <= Len(cwd.parts) + 1
           /\ \A i \in 1..Len(probes) :
                probes[i] = [abs |-> TRUE,
                             parts |-> SubSeq(cwd.parts, 1, Len(cwd.parts) + 1 - i)]
           /\ IF \E a \in Ancestors(cwd) : fs[a] = "dir"
              THEN /\ Nearest(probes[Len(probes)])
                   /\ actual_project_dir # NoPath
                        => /\ actual_project_dir = probes[Len(probes)]
                           /\ find_tasq_directory(actual_project_dir).found
                           /\ find_tasq_directory(actual_project_dir).dir = actual_project_dir
                   /\ fs[cwd] = "dir" => probes = <<cwd>>
                   /\ (pc = "done" /\ req.op = "open_task_ui")
                        => result = Return(UiText(probes[Len(probes)]))
                   /\ result \notin {Raise("Exception", AutoNotFoundMsg),
                                     Return(StatusErrorHeading \o AutoNotFoundMsg)}
              ELSE /\ Len(probes) = Len(cwd.parts) + 1
                   /\ actual_project_dir = NoPath
                   /\ pc = "done"
                   /\ result = IF req.op = "get_project_status"
                               THEN Return(StatusErrorHeading \o AutoNotFoundMsg)
                               ELSE Raise("Exception", AutoNotFoundMsg)

C6_Witness ==
    /\ pc = "add_run"
    /\ req.project_dir = Dot
    /\ cwd.parts # <<>>
    /\ fs[cwd] = "file"
    /\ actual_project_dir = [abs |-> TRUE, parts |-> <<>>]
    /\ Len(probes) = Len(cwd.parts) + 1

\* C7: get_next_task ends as the executor classifies its one subprocess:
\* exit status zero is a return; a non-zero exit raises CommandFailed with
\* the trimmed standard error, or the generic message when standard error
\* is empty; every outcome in which the program could not be started raises
\* ExecutableNotFound; the program has been invoked exactly once.
C7_ExecutorClassifies ==
    (pc = "done" /\ req.op = "get_next_task" /\ calls # <<>>)
        => /\ Len(calls) = 1
           /\ (proc.kind = "exited" /\ proc.returncode = 0) => result.kind = "return"
           /\ (proc.kind = "exited" /\ proc.returncode # 0)
                => result = Raise("Exception",
                                  <<"TasQ command failed: ">>
                                    \o (IF proc.stderr = <<>> THEN CalledProcessErrorStr
                                        ELSE strip(proc.stderr)))
           /\ proc.kind # "exited" => result = Raise("Exception", BinaryNotFoundMsg)

FailureTokens ==
    {StatusNextHeading[1], StatusErrorHeading[1], "TasQ command failed: ", BinaryNotFoundMsg[1],
     PermissionErrorStr[1], CalledProcessErrorStr[1], None[1]}

\* C8: when the "next" call of get_project_status fails, the handler
\* returns the summary it returns for an empty "next" output: not the error
\* string, no next-task block, nothing of the failure.
C8_StatusNextFailureIsAbsence ==
    [][(pc = "status_next" /\ Failed(proc'))
        => /\ pc' = "done"
           /\ result'.kind = "return"
           /\ \A i \in 1..Len(result'.text) : result'.text[i] \notin FailureTokens
           /\ result'.text = StatusText(actual_project_dir, all_tasks, pending_tasks,
                                        completed_tasks, <<>>)]_vars

C8_Witness ==
    /\ pc = "done"
    /\ req.op = "get_project_status"
    /\ Len(calls) = 4
    /\ proc.kind = "FileNotFoundError"
    /\ result.kind = "return"
    /\ result.text[Len(result.text)] = "t"

\* C9: when their one subprocess succeeds, get_next_task has run "next" and
\* returns the "all caught up" message exactly when the output is blank,
\* and list_tasks has run "list --completed" if show_completed and
\* "list --pending" if not, and returns the "no tasks" message exactly when
\* the output is blank; otherwise each returns its heading followed by the
\* trimmed output, which is not empty.
C9_EmptyStateMessages ==
    (pc = "done" /\ req.op \in {"get_next_task", "list_tasks"} /\ calls # <<>> /\ ~Failed(proc))
        => /\ Len(calls) = 1
           /\ result.kind = "return"
           /\ result.text \notin {NextHeading, TasksHeading}
           /\ req.op = "get_next_task"
                => /\ calls[1].cmd = <<<<"tasq">>, <<"next">>>>
                   /\ result.text = CaughtUpMsg <=> Blank(proc.stdout)
                   /\ ~Blank(proc.stdout) => result.text = NextHeading \o strip(proc.stdout)
           /\ req.op = "list_tasks"
                => /\ calls[1].cmd =
                        <<<<"tasq">>, <<"list">>,
                          IF req.show_completed THEN <<"--completed">> ELSE <<"--pending">>>>
                   /\ result.text = NoTasksMsg <=> Blank(proc.stdout)
                   /\ ~Blank(proc.stdout) => result.text = TasksHeading \o strip(proc.stdout)

C9_Witness ==
    /\ pc = "done"
    /\ req.op = "list_tasks"
    /\ req.show_completed
    /\ proc.kind = "exited"
    /\ proc.returncode = 0
    /\ proc.stdout = <<"\n">>
    /\ result = Return(NoTasksMsg)

\* C10: in complete_task the first subprocess is "complete" and the second,
\* if any, is "next", started only after "complete" exited with status
\* zero; there is no third; when there is nothing for the resolver to find
\* or the "complete" call fails, the handler ends there raising that
\* failure.
C10_CompleteThenNext ==
    [][req.op = "complete_task"
        => /\ Len(calls') > Len(calls)
                => \/ /\ calls = <<>>
                      /\ calls' = <<[cmd |-> <<<<"tasq">>, <<"complete">>, req.task_identifier>>,
                                     cwd |-> actual_project_dir]>>
                   \/ /\ Len(calls) = 1
                      /\ calls' = Append(calls, [cmd |-> <<<<"tasq">>, <<"next">>>>,
                                                 cwd |-> actual_project_dir])
                      /\ proc.kind = "exited"
                      /\ proc.returncode = 0
           /\ (pc = "complete_task" /\ NothingToFind(req.project_dir))
                => /\ pc' = "done"
                   /\ calls' = <<>>
                   /\ result' = Raise("Exception", NotFoundMsg(req.project_dir))
           /\ (pc = "complete_run" /\ Failed(proc'))
                => /\ pc' = "done"
                   /\ Len(calls') = 1
                   /\ result'.kind = "raise"
                   /\ result'.text = FailureMsg(proc')]_vars

C10_Witness ==
    /\ pc = "done"
    /\ req.op = "complete_task"
    /\ Len(calls) = 1
    /\ proc.kind = "exited"
    /\ proc.returncode = 1
    /\ result = Raise("Exception", <<"TasQ command failed: ", "t">>)


====
